---- MODULE Spec2Model ----
(***************************************************************************)
(* A model of the LC-3 virtual machine of src/lc3.c: the image loader, the *)
(* memory-mapped keyboard registers, the fetch/decode/execute loop with    *)
(* its sixteen opcodes, the trap dispatcher, and the console-mode          *)
(* handling of main and of the SIGINT handler.                             *)
(*                                                                         *)
(* Words are 16 bits wide: every value stored in a register or a memory    *)
(* word is reduced modulo 65536 where the C code truncates to uint16_t.    *)
(* The 65536-word memory array is held sparsely: a function from the       *)
(* addresses holding a non-zero word to that word (the array has static    *)
(* storage, so every word starts as 0).                                    *)
(***************************************************************************)
EXTENDS Integers, Sequences, FiniteSets, TLC

\* ------------------------------------------------------------------ bounds
\* The number of image paths on the command line.
MaxImages == 2
\* The number of instructions the run loop fetches in one run.
MaxSteps == 8

\* --------------------------------------------------------- program constants
MEMORY_MAX == 65536
R_R0 == 0
R_R7 == 7
R_PC == 8
R_COND == 9
R_COUNT == 10
FL_POS == 1
FL_ZRO == 2
FL_NEG == 4
OP_BR == 0
OP_ADD == 1
OP_LD == 2
OP_ST == 3
OP_JSR == 4
OP_AND == 5
OP_LDR == 6
OP_STR == 7
OP_RTI == 8
OP_NOT == 9
OP_LDI == 10
OP_STI == 11
OP_JMP == 12
OP_RES == 13
OP_LEA == 14
OP_TRAP == 15
MR_KBSR == 65024
MR_KBDR == 65026
TRAP_GETC == 32
TRAP_OUT == 33
TRAP_PUTS == 34
TRAP_IN == 35
TRAP_PUTSP == 36
TRAP_HALT == 37
PC_START == 12288
\* getchar's end-of-file result (stdio's EOF).
EOF_CHAR == -1

\* ------------------------------------------------------------ word arithmetic
\* Conversion of an int to uint16_t.
U16(x) == x % 65536

Shr(x, n) == x \div (2 ^ n)

Shl(x, n) == x * (2 ^ n)

RECURSIVE BitAnd(_, _)
BitAnd(a, b) ==
    IF a = 0 \/ b = 0 THEN 0
    ELSE (a % 2) * (b % 2) + 2 * BitAnd(a \div 2, b \div 2)

RECURSIVE BitOr(_, _)
BitOr(a, b) ==
    IF a = 0 THEN b
    ELSE IF b = 0 THEN a
    ELSE (IF a % 2 = 1 \/ b % 2 = 1 THEN 1 ELSE 0) + 2 * BitOr(a \div 2, b \div 2)

\* ~x of a uint16_t, stored back into a uint16_t: each of the 16 bits flipped.
RECURSIVE FlipBits(_, _)
FlipBits(x, n) ==
    IF n = 0 THEN 0
    ELSE (1 - (x % 2)) + 2 * FlipBits(x \div 2, n - 1)

BitNot16(x) == FlipBits(x, 16)

\* sign_extend testing the bit above the field's sign bit.
sign_extend_WrongBit(x, bit_count) ==
    IF BitAnd(Shr(x, bit_count), 1) # 0
    THEN U16(BitOr(x, Shl(65535, bit_count)))
    ELSE x

sign_extend(x, bit_count) ==
    IF BitAnd(Shr(x, bit_count - 1), 1) # 0
    THEN U16(BitOr(x, Shl(65535, bit_count)))
    ELSE x

swap16(x) == U16(BitOr(Shl(x, 8), Shr(x, 8)))

\* -------------------------------------------------------------------- memory
\* memory[a]
MemAt(mem, a) == IF a \in DOMAIN mem THEN mem[a] ELSE 0

\* memory[a] = v. A word that becomes 0 leaves the function's domain.
MemPut(mem, a, v) ==
    IF v # 0 THEN (a :> v) @@ mem
    ELSE IF a \in DOMAIN mem THEN [x \in (DOMAIN mem) \ {a} |-> mem[x]]
    ELSE mem

EmptyMemory == [x \in {} |-> 0]

\* mem_write storing one word too high.
mem_write_OffByOne(mem, address, val) == MemPut(mem, U16(address + 1), val)

mem_write(mem, address, val) == MemPut(mem, address, val)

\* The ints getchar can return: a byte of console input, or EOF.
InputChars == {0, 65, 200, EOF_CHAR}

\* What a poll of the console finds: <<>> when check_key's select reports nothing
\* to read, <<c>> when it reports input and getchar then returns c. Only a read
\* of the status register polls.
NoKey == <<>>

PollChoices(address) ==
    IF address = MR_KBSR THEN {NoKey} \cup {<<c>> : c \in InputChars} ELSE {NoKey}

\* mem_read that leaves the stored status alone when the poll finds no key.
mem_read_StaleStatus(mem, address, poll) ==
    LET m1 == IF address = MR_KBSR /\ poll # NoKey
              THEN MemPut(MemPut(mem, MR_KBSR, Shl(1, 15)), MR_KBDR, U16(poll[1]))
              ELSE mem
    IN [mem |-> m1, val |-> MemAt(m1, address)]

\* mem_read: the memory after the read and the word returned.
mem_read(mem, address, poll) ==
    LET m1 == IF address = MR_KBSR
              THEN IF poll # NoKey
                   THEN MemPut(MemPut(mem, MR_KBSR, Shl(1, 15)), MR_KBDR, U16(poll[1]))
                   ELSE MemPut(mem, MR_KBSR, 0)
              ELSE mem
    IN [mem |-> m1, val |-> MemAt(m1, address)]

\* ------------------------------------------------------------- image loader
\* The 16-bit value fread stores for two successive bytes of the file (the host
\* is little-endian: the first byte is the low one).
HostWord(b0, b1) == b0 + 256 * b1

Min(a, b) == IF a < b THEN a ELSE b

\* fread(p, sizeof(uint16_t), n, file): the n words following the origin, in
\* host byte order, as they lie at p[0..n-1].
FreadWords(bytes, n) ==
    [k \in 0..(n - 1) |-> HostWord(bytes[3 + 2 * k], bytes[4 + 2 * k])]

\* while (read-- > 0) { *p = swap16(*p); ++p; }
SwapWords(words) == [k \in DOMAIN words |-> swap16(words[k])]

\* The memory with words[0..] lying at p, p+1, ...
MemStore(mem, p, words) ==
    LET at(a) == IF (a - p) \in DOMAIN words THEN words[a - p] ELSE MemAt(mem, a)
        dom == {a \in DOMAIN mem \cup {p + k : k \in DOMAIN words} : at(a) # 0}
    IN [a \in dom |-> at(a)]

\* read_image_file on a file of at least two bytes and an even length.
read_image_file(mem, bytes) ==
    LET origin == swap16(HostWord(bytes[1], bytes[2]))
        max_read == U16(MEMORY_MAX - origin)
        read == Min((Len(bytes) - 2) \div 2, max_read)
    IN MemStore(mem, origin, SwapWords(FreadWords(bytes, read)))

\* ------------------------------------------------------------------ decoding
Opcode(ins) == Shr(ins, 12)

DR(ins) == BitAnd(Shr(ins, 9), 7)

SR1(ins) == BitAnd(Shr(ins, 6), 7)

SR2(ins) == BitAnd(ins, 7)

ImmFlag(ins) == BitAnd(Shr(ins, 5), 1)

LongFlag(ins) == BitAnd(Shr(ins, 11), 1)

TrapVect(ins) == BitAnd(ins, 255)

PcOffset9(ins) == sign_extend(BitAnd(ins, 511), 9)

\* A slip: the flag is or-ed into the condition register instead of assigned.
update_flags_Accumulate(rg, r) ==
    [rg EXCEPT ![R_COND] = BitOr(rg[R_COND],
                                 IF rg[r] = 0 THEN FL_ZRO
                                 ELSE IF Shr(rg[r], 15) # 0 THEN FL_NEG
                                 ELSE FL_POS)]

\* A slip: the zero case is missing, so 0 counts as positive.
update_flags_NoZero(rg, r) ==
    [rg EXCEPT ![R_COND] = IF Shr(rg[r], 15) # 0 THEN FL_NEG ELSE FL_POS]

update_flags(rg, r) ==
    [rg EXCEPT ![R_COND] = IF rg[r] = 0 THEN FL_ZRO
                           ELSE IF Shr(rg[r], 15) # 0 THEN FL_NEG
                           ELSE FL_POS]

\* ------------------------------------------------- register-only instructions
\* A slip: the sum saturates at 0xFFFF instead of wrapping.
ExecAdd_Saturate(rg, ins) ==
    LET r0 == DR(ins)
        r1 == SR1(ins)
        sum == IF ImmFlag(ins) # 0
               THEN rg[r1] + sign_extend(BitAnd(ins, 31), 5)
               ELSE rg[r1] + rg[SR2(ins)]
    IN update_flags([rg EXCEPT ![r0] = Min(sum, 65535)], r0)

ExecAdd(rg, ins) ==
    LET r0 == DR(ins)
        r1 == SR1(ins)
        sum == IF ImmFlag(ins) # 0
               THEN rg[r1] + sign_extend(BitAnd(ins, 31), 5)
               ELSE rg[r1] + rg[SR2(ins)]
    IN update_flags([rg EXCEPT ![r0] = U16(sum)], r0)

ExecAnd(rg, ins) ==
    LET r0 == DR(ins)
        r1 == SR1(ins)
        val == IF ImmFlag(ins) # 0
               THEN BitAnd(rg[r1], sign_extend(BitAnd(ins, 31), 5))
               ELSE BitAnd(rg[r1], rg[SR2(ins)])
    IN update_flags([rg EXCEPT ![r0] = val], r0)

ExecNot(rg, ins) ==
    LET r0 == DR(ins)
    IN update_flags([rg EXCEPT ![r0] = BitNot16(rg[SR1(ins)])], r0)

\* BR that branches whatever the condition flag is.
ExecBr_Always(rg, ins) == [rg EXCEPT ![R_PC] = U16(rg[R_PC] + PcOffset9(ins))]

ExecBr(rg, ins) ==
    IF BitAnd(DR(ins), rg[R_COND]) # 0
    THEN [rg EXCEPT ![R_PC] = U16(rg[R_PC] + PcOffset9(ins))]
    ELSE rg

ExecJmp(rg, ins) == [rg EXCEPT ![R_PC] = rg[SR1(ins)]]

\* JSR that links after the jump: R7 receives the new program counter.
ExecJsr_LinkAfter(rg, ins) ==
    LET jumped == IF LongFlag(ins) # 0
                  THEN [rg EXCEPT ![R_PC] = U16(rg[R_PC] + sign_extend(BitAnd(ins, 2047), 11))]
                  ELSE [rg EXCEPT ![R_PC] = rg[SR1(ins)]]
    IN [jumped EXCEPT ![R_R7] = jumped[R_PC]]

ExecJsr(rg, ins) ==
    LET linked == [rg EXCEPT ![R_R7] = rg[R_PC]]
    IN IF LongFlag(ins) # 0
       THEN [linked EXCEPT ![R_PC] = U16(linked[R_PC] + sign_extend(BitAnd(ins, 2047), 11))]
       ELSE [linked EXCEPT ![R_PC] = linked[SR1(ins)]]

ExecLea(rg, ins) ==
    LET r0 == DR(ins)
    IN update_flags([rg EXCEPT ![r0] = U16(rg[R_PC] + PcOffset9(ins))], r0)

\* ------------------------------------------------------------ console output
\* putc((char)w, stdout): the byte written for a word.
LowByte(w) == BitAnd(w, 255)

\* char c = getchar(): the value of the char. Whether char is signed is the
\* build's choice; with a signed char a byte of 128 or more is negative.
CharOf(ch, signedChar) ==
    LET b == ch % 256
    IN IF signedChar /\ b >= 128 THEN b - 256 ELSE b

\* "Shutdown" and the newline puts adds.
MsgShutdown == <<83, 104, 117, 116, 100, 111, 119, 110, 10>>

\* "Enter a character: "
MsgPrompt == <<69, 110, 116, 101, 114, 32, 97, 32, 99, 104, 97, 114, 97, 99, 116, 101, 114, 58, 32>>

MsgNewline == <<10>>

\* TRAP PUTS: the bytes written from address c on, and whether the scan ran off
\* the end of the memory array before it met a zero word.
RECURSIVE PutsScan(_, _, _)
PutsScan(mem, c, acc) ==
    IF c >= MEMORY_MAX THEN [out |-> acc, past |-> TRUE]
    ELSE IF MemAt(mem, c) = 0 THEN [out |-> acc, past |-> FALSE]
    ELSE PutsScan(mem, c + 1, Append(acc, LowByte(MemAt(mem, c))))

\* TRAP PUTSP: the low byte of each word, then its high byte when that is not 0.
RECURSIVE PutspScan(_, _, _)
PutspScan(mem, c, acc) ==
    IF c >= MEMORY_MAX THEN [out |-> acc, past |-> TRUE]
    ELSE IF MemAt(mem, c) = 0 THEN [out |-> acc, past |-> FALSE]
    ELSE LET w == MemAt(mem, c)
             char1 == BitAnd(w, 255)
             char2 == Shr(w, 8)
         IN PutspScan(mem, c + 1,
                      IF char2 # 0 THEN acc \o <<char1, char2>> ELSE Append(acc, char1))

\* What a read past the end of the memory array (undefined behaviour) can do:
\* find a zero word there and end the scan, find a word that is not zero,
\* write its byte and end the scan on the word after it, or fault.
PastEndOutcomes == {"zero", "garbage", "fault"}

\* The byte written for a word found past the end of the memory array.
PastEndBytes(outcome) == IF outcome = "garbage" THEN <<255>> ELSE <<>>

\* ------------------------------------------------------------- image files
\* An image file's bytes: the origin, then the words, each big-endian.
ImageBytes(origin, words) ==
    LET all == <<origin>> \o words
    IN [k \in 1..(2 * Len(all)) |->
          IF k % 2 = 1 THEN all[(k + 1) \div 2] \div 256 ELSE all[k \div 2] % 256]

Ins(op, low12) == op * 4096 + low12

ADDi(dr, sr1, imm5) == Ins(OP_ADD, dr * 512 + sr1 * 64 + 32 + (imm5 % 32))

ADDr(dr, sr1, sr2) == Ins(OP_ADD, dr * 512 + sr1 * 64 + sr2)

ANDi(dr, sr1, imm5) == Ins(OP_AND, dr * 512 + sr1 * 64 + 32 + (imm5 % 32))

ANDr(dr, sr1, sr2) == Ins(OP_AND, dr * 512 + sr1 * 64 + sr2)

NOTr(dr, sr1) == Ins(OP_NOT, dr * 512 + sr1 * 64 + 63)

BRc(mask, off9) == Ins(OP_BR, mask * 512 + (off9 % 512))

JMPr(base) == Ins(OP_JMP, base * 64)

JSRo(off11) == Ins(OP_JSR, 2048 + (off11 % 2048))

JSRRr(base) == Ins(OP_JSR, base * 64)

LDo(dr, off9) == Ins(OP_LD, dr * 512 + (off9 % 512))

LDIo(dr, off9) == Ins(OP_LDI, dr * 512 + (off9 % 512))

LDRo(dr, base, off6) == Ins(OP_LDR, dr * 512 + base * 64 + (off6 % 64))

LEAo(dr, off9) == Ins(OP_LEA, dr * 512 + (off9 % 512))

STo(sr, off9) == Ins(OP_ST, sr * 512 + (off9 % 512))

STIo(sr, off9) == Ins(OP_STI, sr * 512 + (off9 % 512))

STRo(sr, base, off6) == Ins(OP_STR, sr * 512 + base * 64 + (off6 % 64))

TRAPv(vect) == Ins(OP_TRAP, vect)

\* Arithmetic: 0xFFFF + 1 wraps to 0; NOT, AND and a doubling that overflows.
ImgArith ==
    ImageBytes(PC_START,
        <<ADDi(1, 1, -1), ADDi(1, 1, 1), NOTr(2, 1), ADDr(3, 2, 2), ANDi(4, 2, 10),
          TRAPv(TRAP_HALT)>>)

\* The register forms: 0xFFFF + 1 and 0xFFFF & 1.
ImgAddReg ==
    ImageBytes(PC_START,
        <<ADDi(1, 1, -1), ADDi(2, 2, 1), ADDr(3, 1, 2), ANDr(5, 1, 2), TRAPv(TRAP_HALT)>>)

\* LD, LDI, LDR and LEA over three data words.
ImgLoad ==
    ImageBytes(PC_START,
        <<LDo(0, 4), LDIo(1, 3), LDRo(2, 0, 1), LEAo(3, -4), TRAPv(TRAP_HALT),
          12294, 32769, 66>>)

\* ST, STI and STR; the STR lands on the last word of memory.
ImgStore ==
    ImageBytes(PC_START,
        <<ADDi(1, 1, -1), STo(1, 3), STIo(1, 3), STRo(1, 2, -1), TRAPv(TRAP_HALT),
          0, 16384>>)

\* BR taken and not taken, JSR, JSRR through R7, and a backward BR.
ImgBranch ==
    ImageBytes(PC_START,
        <<BRc(2, 1), Ins(OP_RTI, 0), BRc(5, 5), JSRo(1), TRAPv(TRAP_HALT),
          JSRRr(7), BRc(7, -3)>>)

\* A jump to the keyboard status register: the next fetch polls the console.
ImgJmpStatus ==
    ImageBytes(PC_START, <<LDo(1, 2), JMPr(1), TRAPv(TRAP_HALT), MR_KBSR>>)

\* A jump to the code ImgDevice places below the status register.
ImgJmpDevice ==
    ImageBytes(PC_START, <<LDo(1, 1), JMPr(1), MR_KBSR - 2>>)

\* Ends on the status register: an LDI whose pointer word is the status register.
ImgDevice ==
    ImageBytes(MR_KBSR - 2, <<LDIo(0, 1), TRAPv(TRAP_HALT), PC_START>>)

\* An LDI whose pointer holds the address of the status register, and an LD of
\* the data register.
ImgLdiStatus ==
    ImageBytes(PC_START, <<LDIo(0, 2), LDIo(2, 2), TRAPv(TRAP_HALT), MR_KBSR, MR_KBDR>>)

\* Code below the status register: an STI whose pointer word is the status
\* register.
ImgDeviceStore ==
    ImageBytes(MR_KBSR - 2, <<STIo(1, 1), TRAPv(TRAP_HALT)>>)

\* A jump to the last word of memory.
ImgJmpTop ==
    ImageBytes(PC_START, <<ADDi(1, 1, -1), JMPr(1)>>)

\* An LEA in the last word of memory: the program counter wraps to 0 after its
\* fetch.
ImgWrap == ImageBytes(65535, <<LEAo(2, 1)>>)

\* The character traps.
ImgChars ==
    ImageBytes(PC_START,
        <<TRAPv(TRAP_GETC), TRAPv(TRAP_OUT), TRAPv(TRAP_IN), TRAPv(TRAP_HALT)>>)

\* Arithmetic on a character read from the console: c - 1, ~c, ~c + c, and
\* 0xFFFF + 1.
ImgInputSum ==
    ImageBytes(PC_START,
        <<TRAPv(TRAP_GETC), ADDi(1, 0, -1), NOTr(2, 0), ADDr(3, 2, 0), ADDi(3, 3, 1),
          TRAPv(TRAP_HALT)>>)

\* PUTS and PUTSP over "HI" and a packed word.
ImgPuts ==
    ImageBytes(PC_START,
        <<LEAo(0, 3), TRAPv(TRAP_PUTS), TRAPv(TRAP_PUTSP), TRAPv(TRAP_HALT),
          72, 19273, 0>>)

\* PUTS and PUTSP from the last word of memory.
ImgPutsTop ==
    ImageBytes(PC_START,
        <<ADDi(0, 0, -1), TRAPv(TRAP_PUTS), TRAPv(TRAP_PUTSP), TRAPv(TRAP_HALT)>>)

\* Three words at 0xFFFE: the third does not fit.
ImgTop == ImageBytes(65534, <<65, 66, 67>>)

\* An image whose origin is 0.
ImgZero == ImageBytes(0, <<1, 2>>)

\* Two trap vectors outside 0x20-0x25, then RTI.
ImgBadTrap ==
    ImageBytes(PC_START, <<TRAPv(38), TRAPv(255), Ins(OP_RTI, 0)>>)

\* The reserved opcode.
ImgReserved == ImageBytes(PC_START, <<Ins(OP_RES, 0)>>)

\* An image of the origin alone.
ImgEmpty == ImageBytes(PC_START, <<>>)

ImageFiles ==
    {ImgArith, ImgAddReg, ImgLoad, ImgStore, ImgBranch, ImgJmpStatus, ImgJmpDevice,
     ImgDevice, ImgDeviceStore, ImgJmpTop, ImgWrap, ImgLdiStatus, ImgChars, ImgInputSum, ImgPuts, ImgPutsTop, ImgTop, ImgZero,
     ImgBadTrap, ImgReserved, ImgEmpty}

\* A path fopen cannot open.
Missing == <<>>

Paths == ImageFiles \cup {Missing}

\* --------------------------------------------------------------------- state
VARIABLES
    pc,            \* where main is: "args", "load", "signal", "setup", "loop", "exited"
    exit,          \* how the process ended: "none" while it runs
    argv,          \* argv[1..argc-1]: the image files named on the command line
    j,             \* the loop index of main's load loop
    memory,        \* uint16_t memory[MEMORY_MAX]
    reg,           \* uint16_t reg[R_COUNT]
    running,       \* main's run flag
    instr,         \* the instruction word last fetched
    steps,         \* the number of instructions fetched
    console,       \* the terminal's mode: "cooked", "raw", "zeroed"
    original_tio,  \* the saved termios: "zeroed" until tcgetattr fills it
    handler,       \* whether handle_interrupt is installed for SIGINT
    out,           \* the bytes written to stdout
    past,          \* whether a string scan has read past the end of memory
    consumed,      \* the ints getchar has returned so far, in order
    sx             \* a call of sign_extend on its own: arguments and result

vars == <<pc, exit, argv, j, memory, reg, running, instr, steps, console,
          original_tio, handler, out, past, consumed, sx>>

\* No call of sign_extend on its own is under way.
SxIdle == [x |-> 0, bit_count |-> 0, result |-> 0, done |-> FALSE]

Init ==
    /\ pc = "args"
    /\ exit = "none"
    /\ argv \in UNION {[1..n -> Paths] : n \in 0..MaxImages}
    /\ j = 1
    /\ memory = EmptyMemory
    /\ reg = [r \in 0..(R_COUNT - 1) |-> 0]
    /\ running = FALSE
    /\ instr = 0
    /\ steps = 0
    /\ console = "cooked"
    /\ original_tio = "zeroed"
    /\ handler = FALSE
    /\ out = <<>>
    /\ past = FALSE
    /\ consumed = <<>>
    /\ sx = SxIdle

\* ------------------------------------------------------------ main: loading
\* argc < 2: the usage message and exit(2).
Usage ==
    /\ pc = "args"
    /\ Len(argv) = 0
    /\ pc' = "exited"
    /\ exit' = "2"
    /\ UNCHANGED <<consumed, sx, argv, j, memory, reg, running, instr, steps, console,
                   original_tio, handler, out, past>>

EnterLoad ==
    /\ pc = "args"
    /\ Len(argv) > 0
    /\ pc' = "load"
    /\ UNCHANGED <<consumed, sx, exit, argv, j, memory, reg, running, instr, steps, console,
                   original_tio, handler, out, past>>

\* The path main's load loop reads in its j-th round.
NextPath == argv[j]

\* read_image succeeds: the file's words are in memory and the loop goes on.
LoadImage ==
    /\ pc = "load"
    /\ j <= Len(argv)
    /\ NextPath # Missing
    /\ memory' = read_image_file(memory, NextPath)
    /\ j' = j + 1
    /\ UNCHANGED <<consumed, sx, pc, exit, argv, reg, running, instr, steps, console,
                   original_tio, handler, out, past>>

\* A slip: the failure is reported and the load loop goes on to the next path.
LoadFail_Continue ==
    /\ pc = "load"
    /\ j <= Len(argv)
    /\ NextPath = Missing
    /\ j' = j + 1
    /\ UNCHANGED <<consumed, sx, pc, exit, argv, memory, reg, running, instr, steps, console,
                   original_tio, handler, out, past>>

\* read_image returns 0: exit(1).
LoadFail ==
    /\ pc = "load"
    /\ j <= Len(argv)
    /\ NextPath = Missing
    /\ pc' = "exited"
    /\ exit' = "1"
    /\ UNCHANGED <<consumed, sx, argv, j, memory, reg, running, instr, steps, console,
                   original_tio, handler, out, past>>

LoadDone ==
    /\ pc = "load"
    /\ j > Len(argv)
    /\ pc' = "signal"
    /\ UNCHANGED <<consumed, sx, exit, argv, j, memory, reg, running, instr, steps, console,
                   original_tio, handler, out, past>>

\* -------------------------------------------------------------- main: setup
\* signal(SIGINT, handle_interrupt)
InstallHandler ==
    /\ pc = "signal"
    /\ handler' = TRUE
    /\ pc' = "setup"
    /\ UNCHANGED <<consumed, sx, exit, argv, j, memory, reg, running, instr, steps, console,
                   original_tio, out, past>>

\* disable_input_buffering, then the condition register, the program counter
\* and the run flag.
Setup ==
    /\ pc = "setup"
    /\ original_tio' = console
    /\ console' = "raw"
    /\ reg' = [reg EXCEPT ![R_COND] = FL_ZRO, ![R_PC] = PC_START]
    /\ running' = TRUE
    /\ pc' = "loop"
    /\ UNCHANGED <<consumed, sx, exit, argv, j, memory, instr, steps, handler, out, past>>

\* restore_input_buffering: the mode tcsetattr sets.
RestoredMode == original_tio

\* SIGINT while the process runs. With the handler installed the console mode
\* is set from original_tio and the process exits with -2; before that the
\* signal's default action ends the process.
Interrupt ==
    /\ pc # "exited"
    /\ pc' = "exited"
    /\ exit' = IF handler THEN "-2" ELSE "SIGINT"
    /\ console' = IF handler THEN RestoredMode ELSE console
    /\ out' = IF handler THEN out \o MsgNewline ELSE out
    /\ UNCHANGED <<consumed, sx, argv, j, memory, reg, running, instr, steps, original_tio,
                   handler, past>>

\* The run flag is clear: the loop ends, the console mode is restored and main
\* returns.
LoopExit ==
    /\ pc = "loop"
    /\ ~running
    /\ console' = RestoredMode
    /\ pc' = "exited"
    /\ exit' = "0"
    /\ UNCHANGED <<consumed, sx, argv, j, memory, reg, running, instr, steps, original_tio,
                   handler, out, past>>

\* ------------------------------------------------------------ the run loop
Looping == pc = "loop" /\ running /\ steps < MaxSteps

\* uint16_t instr = mem_read(reg[R_PC]++): the read, and the registers after it.
Fetch(poll) == mem_read(memory, reg[R_PC], poll)

\* The registers after a fetch that leaves the program counter where it was.
Fetched_NotIncremented == reg

Fetched == [reg EXCEPT ![R_PC] = U16(reg[R_PC] + 1)]

OpAdd ==
    /\ Looping
    /\ \E poll \in PollChoices(reg[R_PC]) :
          LET f == Fetch(poll)
          IN /\ Opcode(f.val) = OP_ADD
             /\ instr' = f.val
             /\ consumed' = consumed \o poll
             /\ memory' = f.mem
             /\ reg' = ExecAdd(Fetched, f.val)
    /\ steps' = steps + 1
    /\ UNCHANGED <<sx, pc, exit, argv, j, running, console, original_tio, handler,
                   out, past>>

OpAnd ==
    /\ Looping
    /\ \E poll \in PollChoices(reg[R_PC]) :
          LET f == Fetch(poll)
          IN /\ Opcode(f.val) = OP_AND
             /\ instr' = f.val
             /\ consumed' = consumed \o poll
             /\ memory' = f.mem
             /\ reg' = ExecAnd(Fetched, f.val)
    /\ steps' = steps + 1
    /\ UNCHANGED <<sx, pc, exit, argv, j, running, console, original_tio, handler,
                   out, past>>

OpNot ==
    /\ Looping
    /\ \E poll \in PollChoices(reg[R_PC]) :
          LET f == Fetch(poll)
          IN /\ Opcode(f.val) = OP_NOT
             /\ instr' = f.val
             /\ consumed' = consumed \o poll
             /\ memory' = f.mem
             /\ reg' = ExecNot(Fetched, f.val)
    /\ steps' = steps + 1
    /\ UNCHANGED <<sx, pc, exit, argv, j, running, console, original_tio, handler,
                   out, past>>

OpBr ==
    /\ Looping
    /\ \E poll \in PollChoices(reg[R_PC]) :
          LET f == Fetch(poll)
          IN /\ Opcode(f.val) = OP_BR
             /\ instr' = f.val
             /\ consumed' = consumed \o poll
             /\ memory' = f.mem
             /\ reg' = ExecBr(Fetched, f.val)
    /\ steps' = steps + 1
    /\ UNCHANGED <<sx, pc, exit, argv, j, running, console, original_tio, handler,
                   out, past>>

OpJmp ==
    /\ Looping
    /\ \E poll \in PollChoices(reg[R_PC]) :
          LET f == Fetch(poll)
          IN /\ Opcode(f.val) = OP_JMP
             /\ instr' = f.val
             /\ consumed' = consumed \o poll
             /\ memory' = f.mem
             /\ reg' = ExecJmp(Fetched, f.val)
    /\ steps' = steps + 1
    /\ UNCHANGED <<sx, pc, exit, argv, j, running, console, original_tio, handler,
                   out, past>>

OpJsr ==
    /\ Looping
    /\ \E poll \in PollChoices(reg[R_PC]) :
          LET f == Fetch(poll)
          IN /\ Opcode(f.val) = OP_JSR
             /\ instr' = f.val
             /\ consumed' = consumed \o poll
             /\ memory' = f.mem
             /\ reg' = ExecJsr(Fetched, f.val)
    /\ steps' = steps + 1
    /\ UNCHANGED <<sx, pc, exit, argv, j, running, console, original_tio, handler,
                   out, past>>

OpLea ==
    /\ Looping
    /\ \E poll \in PollChoices(reg[R_PC]) :
          LET f == Fetch(poll)
          IN /\ Opcode(f.val) = OP_LEA
             /\ instr' = f.val
             /\ consumed' = consumed \o poll
             /\ memory' = f.mem
             /\ reg' = ExecLea(Fetched, f.val)
    /\ steps' = steps + 1
    /\ UNCHANGED <<sx, pc, exit, argv, j, running, console, original_tio, handler,
                   out, past>>

\* The address of LD, LEA, ST and the pointer of LDI, STI.
PcRelative(rg, ins) == U16(rg[R_PC] + PcOffset9(ins))

\* The address of LDR and STR.
BaseRelative(rg, ins) == U16(rg[SR1(ins)] + sign_extend(BitAnd(ins, 63), 6))

\* A load of the word at address into the destination register.
LoadInto(rg, ins, val) == update_flags([rg EXCEPT ![DR(ins)] = val], DR(ins))

OpLd ==
    /\ Looping
    /\ \E poll \in PollChoices(reg[R_PC]) :
          LET f == Fetch(poll)
              address == PcRelative(Fetched, f.val)
          IN /\ Opcode(f.val) = OP_LD
             /\ instr' = f.val
             /\ \E poll1 \in PollChoices(address) :
                   LET rd == mem_read(f.mem, address, poll1)
                   IN /\ memory' = rd.mem
                      /\ consumed' = consumed \o poll \o poll1
                      /\ reg' = LoadInto(Fetched, f.val, rd.val)
    /\ steps' = steps + 1
    /\ UNCHANGED <<sx, pc, exit, argv, j, running, console, original_tio, handler,
                   out, past>>

\* A slip: LDI reads memory once, as LD does.
OpLdi_OneLevel ==
    /\ Looping
    /\ \E poll \in PollChoices(reg[R_PC]) :
          LET f == Fetch(poll)
              pointer == PcRelative(Fetched, f.val)
          IN /\ Opcode(f.val) = OP_LDI
             /\ instr' = f.val
             /\ \E poll1 \in PollChoices(pointer) :
                   LET rd == mem_read(f.mem, pointer, poll1)
                   IN /\ memory' = rd.mem
                      /\ consumed' = consumed \o poll \o poll1
                      /\ reg' = LoadInto(Fetched, f.val, rd.val)
    /\ steps' = steps + 1
    /\ UNCHANGED <<sx, pc, exit, argv, j, running, console, original_tio, handler,
                   out, past>>

OpLdi ==
    /\ Looping
    /\ \E poll \in PollChoices(reg[R_PC]) :
          LET f == Fetch(poll)
              pointer == PcRelative(Fetched, f.val)
          IN /\ Opcode(f.val) = OP_LDI
             /\ instr' = f.val
             /\ \E poll1 \in PollChoices(pointer) :
                   LET inner == mem_read(f.mem, pointer, poll1)
                   IN \E poll2 \in PollChoices(inner.val) :
                         LET rd == mem_read(inner.mem, inner.val, poll2)
                         IN /\ memory' = rd.mem
                            /\ consumed' = consumed \o poll \o poll1 \o poll2
                            /\ reg' = LoadInto(Fetched, f.val, rd.val)
    /\ steps' = steps + 1
    /\ UNCHANGED <<sx, pc, exit, argv, j, running, console, original_tio, handler,
                   out, past>>

OpLdr ==
    /\ Looping
    /\ \E poll \in PollChoices(reg[R_PC]) :
          LET f == Fetch(poll)
              address == BaseRelative(Fetched, f.val)
          IN /\ Opcode(f.val) = OP_LDR
             /\ instr' = f.val
             /\ \E poll1 \in PollChoices(address) :
                   LET rd == mem_read(f.mem, address, poll1)
                   IN /\ memory' = rd.mem
                      /\ consumed' = consumed \o poll \o poll1
                      /\ reg' = LoadInto(Fetched, f.val, rd.val)
    /\ steps' = steps + 1
    /\ UNCHANGED <<sx, pc, exit, argv, j, running, console, original_tio, handler,
                   out, past>>

OpSt ==
    /\ Looping
    /\ \E poll \in PollChoices(reg[R_PC]) :
          LET f == Fetch(poll)
          IN /\ Opcode(f.val) = OP_ST
             /\ instr' = f.val
             /\ consumed' = consumed \o poll
             /\ memory' = mem_write(f.mem, PcRelative(Fetched, f.val), Fetched[DR(f.val)])
    /\ reg' = Fetched
    /\ steps' = steps + 1
    /\ UNCHANGED <<sx, pc, exit, argv, j, running, console, original_tio, handler,
                   out, past>>

OpSti ==
    /\ Looping
    /\ \E poll \in PollChoices(reg[R_PC]) :
          LET f == Fetch(poll)
              pointer == PcRelative(Fetched, f.val)
          IN /\ Opcode(f.val) = OP_STI
             /\ instr' = f.val
             /\ \E poll1 \in PollChoices(pointer) :
                   LET inner == mem_read(f.mem, pointer, poll1)
                   IN /\ memory' = mem_write(inner.mem, inner.val, Fetched[DR(f.val)])
                      /\ consumed' = consumed \o poll \o poll1
    /\ reg' = Fetched
    /\ steps' = steps + 1
    /\ UNCHANGED <<sx, pc, exit, argv, j, running, console, original_tio, handler,
                   out, past>>

OpStr ==
    /\ Looping
    /\ \E poll \in PollChoices(reg[R_PC]) :
          LET f == Fetch(poll)
          IN /\ Opcode(f.val) = OP_STR
             /\ instr' = f.val
             /\ consumed' = consumed \o poll
             /\ memory' = mem_write(f.mem, BaseRelative(Fetched, f.val), Fetched[DR(f.val)])
    /\ reg' = Fetched
    /\ steps' = steps + 1
    /\ UNCHANGED <<sx, pc, exit, argv, j, running, console, original_tio, handler,
                   out, past>>

\* case OP_RES, case OP_RTI, default: abort(). The process ends on SIGABRT;
\* nothing restores the console mode.
IllegalOpcodes == {OP_RTI, OP_RES}

\* A slip: the case breaks out of the switch without calling abort.
AfterAbort_Break == "loop"

\* Where main is after abort(): the process has ended.
AfterAbort == "exited"

OpIllegal ==
    /\ Looping
    /\ \E poll \in PollChoices(reg[R_PC]) :
          LET f == Fetch(poll)
          IN /\ Opcode(f.val) \in IllegalOpcodes
             /\ instr' = f.val
             /\ consumed' = consumed \o poll
             /\ memory' = f.mem
    /\ reg' = Fetched
    /\ steps' = steps + 1
    /\ pc' = AfterAbort
    /\ exit' = "SIGABRT"
    /\ UNCHANGED <<sx, argv, j, running, console, original_tio, handler, out, past>>

\* ------------------------------------------------------- the trap dispatcher
DefinedTraps == {TRAP_GETC, TRAP_OUT, TRAP_PUTS, TRAP_IN, TRAP_PUTSP, TRAP_HALT}

\* reg[R_R7] = reg[R_PC], the first statement of case OP_TRAP.
TrapLinked == [Fetched EXCEPT ![R_R7] = Fetched[R_PC]]

\* A slip: TRAP HALT prints its message and leaves the run flag set.
HaltFlag_StillRunning == TRUE

\* What the run flag is after TRAP HALT.
HaltFlag == FALSE

TrapGetc ==
    /\ Looping
    /\ \E poll \in PollChoices(reg[R_PC]) :
          LET f == Fetch(poll)
          IN /\ Opcode(f.val) = OP_TRAP
             /\ TrapVect(f.val) = TRAP_GETC
             /\ instr' = f.val
             /\ memory' = f.mem
             /\ \E ch \in InputChars :
                   /\ consumed' = consumed \o poll \o <<ch>>
                   /\ reg' = update_flags([TrapLinked EXCEPT ![R_R0] = U16(ch)], R_R0)
    /\ steps' = steps + 1
    /\ UNCHANGED <<sx, pc, exit, argv, j, running, console, original_tio, handler,
                   out, past>>

TrapOut ==
    /\ Looping
    /\ \E poll \in PollChoices(reg[R_PC]) :
          LET f == Fetch(poll)
          IN /\ Opcode(f.val) = OP_TRAP
             /\ TrapVect(f.val) = TRAP_OUT
             /\ instr' = f.val
             /\ consumed' = consumed \o poll
             /\ memory' = f.mem
    /\ reg' = TrapLinked
    /\ out' = Append(out, LowByte(TrapLinked[R_R0]))
    /\ steps' = steps + 1
    /\ UNCHANGED <<sx, pc, exit, argv, j, running, console, original_tio, handler,
                   past>>

\* TRAP IN: the prompt, the character read and echoed, R0 and the flags.
TrapIn ==
    /\ Looping
    /\ \E poll \in PollChoices(reg[R_PC]) :
          LET f == Fetch(poll)
          IN /\ Opcode(f.val) = OP_TRAP
             /\ TrapVect(f.val) = TRAP_IN
             /\ instr' = f.val
             /\ memory' = f.mem
             /\ \E ch \in InputChars, signedChar \in BOOLEAN :
                   LET c == CharOf(ch, signedChar)
                   IN /\ consumed' = consumed \o poll \o <<ch>>
                      /\ out' = out \o MsgPrompt \o <<c % 256>>
                      /\ reg' = update_flags([TrapLinked EXCEPT ![R_R0] = U16(c)], R_R0)
    /\ steps' = steps + 1
    /\ UNCHANGED <<sx, pc, exit, argv, j, running, console, original_tio, handler,
                   past>>

\* TRAP PUTS: one character for each word from memory[R0] on.
\* The scan's bytes are written; a scan that ran past the end of memory either
\* met a zero word there or faulted.
TrapPuts ==
    /\ Looping
    /\ \E poll \in PollChoices(reg[R_PC]) :
          LET f == Fetch(poll)
              scan == PutsScan(f.mem, TrapLinked[R_R0], <<>>)
          IN /\ Opcode(f.val) = OP_TRAP
             /\ TrapVect(f.val) = TRAP_PUTS
             /\ instr' = f.val
             /\ consumed' = consumed \o poll
             /\ memory' = f.mem
             /\ past' = (past \/ scan.past)
             /\ \E outcome \in (IF scan.past THEN PastEndOutcomes ELSE {"zero"}) :
                   /\ out' = out \o scan.out \o PastEndBytes(outcome)
                   /\ pc' = IF outcome = "fault" THEN "exited" ELSE pc
                   /\ exit' = IF outcome = "fault" THEN "SIGSEGV" ELSE exit
    /\ reg' = TrapLinked
    /\ steps' = steps + 1
    /\ UNCHANGED <<sx, argv, j, running, console, original_tio, handler>>

\* TRAP PUTSP: two characters for each word from memory[R0] on.
\* The scan's bytes are written; a scan that ran past the end of memory either
\* met a zero word there or faulted.
TrapPutsp ==
    /\ Looping
    /\ \E poll \in PollChoices(reg[R_PC]) :
          LET f == Fetch(poll)
              scan == PutspScan(f.mem, TrapLinked[R_R0], <<>>)
          IN /\ Opcode(f.val) = OP_TRAP
             /\ TrapVect(f.val) = TRAP_PUTSP
             /\ instr' = f.val
             /\ consumed' = consumed \o poll
             /\ memory' = f.mem
             /\ past' = (past \/ scan.past)
             /\ \E outcome \in (IF scan.past THEN PastEndOutcomes ELSE {"zero"}) :
                   /\ out' = out \o scan.out \o PastEndBytes(outcome)
                   /\ pc' = IF outcome = "fault" THEN "exited" ELSE pc
                   /\ exit' = IF outcome = "fault" THEN "SIGSEGV" ELSE exit
    /\ reg' = TrapLinked
    /\ steps' = steps + 1
    /\ UNCHANGED <<sx, argv, j, running, console, original_tio, handler>>

TrapHalt ==
    /\ Looping
    /\ \E poll \in PollChoices(reg[R_PC]) :
          LET f == Fetch(poll)
          IN /\ Opcode(f.val) = OP_TRAP
             /\ TrapVect(f.val) = TRAP_HALT
             /\ instr' = f.val
             /\ consumed' = consumed \o poll
             /\ memory' = f.mem
    /\ reg' = TrapLinked
    /\ out' = out \o MsgShutdown
    /\ running' = HaltFlag
    /\ steps' = steps + 1
    /\ UNCHANGED <<sx, pc, exit, argv, j, console, original_tio, handler, past>>

\* A trap vector outside 0x20-0x25: the inner switch has no case for it and no
\* default, so R7 is written and the loop goes on.
TrapUndefined ==
    /\ Looping
    /\ \E poll \in PollChoices(reg[R_PC]) :
          LET f == Fetch(poll)
          IN /\ Opcode(f.val) = OP_TRAP
             /\ TrapVect(f.val) \notin DefinedTraps
             /\ instr' = f.val
             /\ consumed' = consumed \o poll
             /\ memory' = f.mem
    /\ reg' = TrapLinked
    /\ steps' = steps + 1
    /\ UNCHANGED <<sx, pc, exit, argv, j, running, console, original_tio, handler,
                   out, past>>

Next ==
    \/ Usage
    \/ EnterLoad
    \/ LoadImage
    \/ LoadFail
    \/ LoadDone
    \/ InstallHandler
    \/ Setup
    \/ Interrupt
    \/ LoopExit
    \/ OpAdd
    \/ OpAnd
    \/ OpNot
    \/ OpBr
    \/ OpJmp
    \/ OpJsr
    \/ OpLea
    \/ OpLd
    \/ OpLdi
    \/ OpLdr
    \/ OpSt
    \/ OpSti
    \/ OpStr
    \/ OpIllegal
    \/ TrapGetc
    \/ TrapOut
    \/ TrapIn
    \/ TrapPuts
    \/ TrapPutsp
    \/ TrapHalt
    \/ TrapUndefined

Spec == Init /\ [][Next]_vars

\* ------------------------------------------------- sign_extend on its own
\* The widths the instruction handlers pass as bit_count.
FieldWidths == {5, 6, 9, 11}

\* 2^n
Pow2(n) == Shl(1, n)

\* The calls the handlers can make: a field of bit_count bits, masked out of
\* the instruction word, with bit_count one of the four widths.
SignExtendCalls ==
    UNION {{[x |-> v, bit_count |-> w, result |-> 0, done |-> FALSE] :
               v \in 0..(Pow2(w) - 1)} : w \in FieldWidths}

InitSignExtend ==
    /\ pc = "args"
    /\ exit = "none"
    /\ argv = <<>>
    /\ j = 1
    /\ memory = EmptyMemory
    /\ reg = [r \in 0..(R_COUNT - 1) |-> 0]
    /\ running = FALSE
    /\ instr = 0
    /\ steps = 0
    /\ console = "cooked"
    /\ original_tio = "zeroed"
    /\ handler = FALSE
    /\ out = <<>>
    /\ past = FALSE
    /\ consumed = <<>>
    /\ sx \in SignExtendCalls

SignExtendCall ==
    /\ ~sx.done
    /\ sx' = [sx EXCEPT !.result = sign_extend(sx.x, sx.bit_count), !.done = TRUE]
    /\ UNCHANGED <<pc, exit, argv, j, memory, reg, running, instr, steps, console,
                   original_tio, handler, out, past, consumed>>

NextSignExtend == SignExtendCall

SpecSignExtend == InitSignExtend /\ [][NextSignExtend]_vars

\* ==================================================================== claims
\* The properties below decode instruction words and image files on their own,
\* by division and remainder, so that they do not rest on the model's decoding.

\* An instruction was fetched in this step.
Stepped == steps' = steps + 1

FieldOp(ins) == ins \div 4096

FieldDr(ins) == (ins \div 512) % 8

FieldSr1(ins) == (ins \div 64) % 8

FieldVect(ins) == ins % 256

\* The two's-complement value of the low w bits of ins.
FieldSigned(ins, w) ==
    LET v == ins % (2 ^ w)
    IN IF v >= 2 ^ (w - 1) THEN v - 2 ^ w ELSE v

\* The flag for a 16-bit value: its sign as a two's-complement number.
FlagFor(v) == IF v = 0 THEN FL_ZRO ELSE IF v >= 32768 THEN FL_NEG ELSE FL_POS

\* main has passed its setup: Setup is the one step that fills original_tio, and
\* it sets the condition register in the same step.
Started == original_tio # "zeroed"

\* ----------------------------------------------------------------------- C1
\* C1: once execution has started the condition register holds exactly one of
\* FL_POS, FL_ZRO, FL_NEG (1, 2 or 4), and the destination field of the fetched
\* instruction names one of R0-R7, never the program counter or the condition
\* register.
C1_OneFlag ==
    Started =>
        /\ reg[R_COND] \in {1, 2, 4}
        /\ FieldDr(instr) \in 0..7
        /\ DR(instr) \notin {R_PC, R_COND}

\* A flag-setting instruction has run and left NEGATIVE, with the machine
\* still running.
C1_Witness ==
    /\ pc = "loop"
    /\ FieldOp(instr) = OP_NOT
    /\ reg[R_COND] = FL_NEG
    /\ reg[FieldDr(instr)] = 65535

\* ----------------------------------------------------------------------- C2
\* C2 as stated: a fetched RTI or reserved opcode ends the process by abort,
\* and the step changes nothing but the program counter, which is incremented.
C2_IllegalChangesOnlyPc ==
    [][(Stepped /\ FieldOp(instr') \in {8, 13}) =>
          /\ pc' = "exited"
          /\ exit' = "SIGABRT"
          /\ memory' = memory
          /\ reg' = [reg EXCEPT ![R_PC] = (reg[R_PC] + 1) % 65536]]_vars

\* C2 amended: a fetched RTI or reserved opcode ends the process by abort and
\* the ended process fetches nothing more; the step changes no register but the
\* program counter, which is incremented, and no memory word, except that a
\* fetch from the status register 0xFE00 writes the status and data words.
C2_IllegalTerminates ==
    /\ [][(Stepped /\ FieldOp(instr') \in {8, 13}) =>
             /\ pc' = "exited"
             /\ exit' = "SIGABRT"
             /\ reg' = [reg EXCEPT ![R_PC] = (reg[R_PC] + 1) % 65536]
             /\ (reg[R_PC] # 65024 => memory' = memory)
             /\ \A a \in (DOMAIN memory \cup DOMAIN memory') \ {65024, 65026} :
                   MemAt(memory', a) = MemAt(memory, a)]_vars
    /\ [][pc = "exited" => (steps' = steps /\ pc' = "exited")]_vars

\* The reserved opcode was fetched at 0x3000 and the process aborted.
C2_Witness ==
    /\ pc = "exited"
    /\ exit = "SIGABRT"
    /\ FieldOp(instr) = 13
    /\ reg[R_PC] = PC_START + 1

\* ----------------------------------------------------------------------- C3
\* C3: a TRAP whose vector is none of 0x20-0x25 ends the run: the process has
\* exited when the step is over.
C3_UndefinedTrapTerminates ==
    [][(Stepped /\ FieldOp(instr') = 15 /\ FieldVect(instr') \notin 32..37) =>
          pc' = "exited"]_vars

\* ----------------------------------------------------------------------- C4
\* C4: no process that switched the console to the unbuffered, no-echo mode
\* has ended with the console in another mode than the original one.
C4_ConsoleRestored ==
    (pc = "exited" /\ Started) => console = "cooked"

\* ----------------------------------------------------------------------- C5
BigEndian(b0, b1) == b0 * 256 + b1

ImageOrigin(bytes) == BigEndian(bytes[1], bytes[2])

ImageLen(bytes) == (Len(bytes) - 2) \div 2

\* The i-th body word of the image, i from 0.
ImageWord(bytes, i) == BigEndian(bytes[3 + 2 * i], bytes[4 + 2 * i])

\* C5: loading an image of origin O and words w[0..n-1] leaves w[i] at O+i for
\* every i with O+i <= 0xFFFF, every other word as it was, and writes nothing
\* outside 0x0000-0xFFFF.
C5_LoaderPlacesWords ==
    [][(pc = "load" /\ j' = j + 1) =>
          LET O == ImageOrigin(argv[j])
              n == ImageLen(argv[j])
              touched == DOMAIN memory \cup DOMAIN memory' \cup {O + i : i \in 0..(n - 1)}
          IN /\ DOMAIN memory' \subseteq 0..65535
             /\ \A a \in touched \cap (0..65535) :
                   MemAt(memory', a) = IF a >= O /\ a < O + n
                                       THEN ImageWord(argv[j], a - O)
                                       ELSE MemAt(memory, a)]_vars

\* ----------------------------------------------------------------------- C6
\* The memory after the paths ps have been loaded one after the other into mem.
RECURSIVE LoadedInOrder(_, _)
LoadedInOrder(mem, ps) ==
    IF ps = <<>> THEN mem
    ELSE LoadedInOrder(read_image_file(mem, Head(ps)), Tail(ps))

\* C6: the run loop is entered only after every path has been loaded, in
\* argument order; a run with no path or with a path that fails to load never
\* fetches an instruction; and execution starts at 0x3000.
C6_LoadBeforeRun ==
    /\ (pc = "loop" \/ steps > 0 \/ Started) =>
          /\ Len(argv) > 0
          /\ j = Len(argv) + 1
          /\ \A k \in 1..Len(argv) : argv[k] # Missing
    /\ (Len(argv) = 0 \/ \E k \in 1..Len(argv) : argv[k] = Missing) =>
          (steps = 0 /\ pc # "loop" /\ ~running)
    /\ (pc = "loop" /\ steps = 0) =>
          /\ reg[R_PC] = 12288
          /\ memory = LoadedInOrder(EmptyMemory, argv)

\* The second path failed to load after the first had been loaded, and the
\* process exited with status 1.
C6_Witness ==
    /\ pc = "exited"
    /\ exit = "1"
    /\ j = 2
    /\ memory # EmptyMemory
    /\ steps = 0

\* ----------------------------------------------------------------------- C7
\* C7: TRAP HALT clears the run flag, and from then on no instruction is
\* fetched and no register or memory word changes.
C7_HaltStable ==
    /\ [][(Stepped /\ FieldOp(instr') = 15 /\ FieldVect(instr') = 37) => ~running']_vars
    /\ [][(Started /\ ~running) =>
             (~running' /\ steps' = steps /\ instr' = instr /\ reg' = reg /\ memory' = memory)]_vars

\* The machine halted and main returned.
C7_Witness ==
    /\ pc = "exited"
    /\ exit = "0"
    /\ ~running
    /\ FieldOp(instr) = 15
    /\ FieldVect(instr) = 37

\* ----------------------------------------------------------------------- C8
FlagSetters == {OP_ADD, OP_AND, OP_NOT, OP_LD, OP_LDI, OP_LDR, OP_LEA}

\* C8: after ADD, AND, NOT, LD, LDI, LDR, LEA the condition register is the
\* flag of the value now in the destination register; after TRAP GETC and TRAP
\* IN it is the flag of R0; every other instruction leaves it as it was.
C8_FlagsFollowValue ==
    [][Stepped =>
          IF FieldOp(instr') \in FlagSetters
          THEN reg'[R_COND] = FlagFor(reg'[FieldDr(instr')])
          ELSE IF FieldOp(instr') = 15 /\ FieldVect(instr') \in {32, 35}
          THEN reg'[R_COND] = FlagFor(reg'[R_R0])
          ELSE reg'[R_COND] = reg[R_COND]]_vars

\* An ADD has just written 0 and the flag is ZERO, after an earlier
\* instruction had left another flag.
C8_Witness ==
    /\ pc = "loop"
    /\ instr = ADDi(1, 1, 1)
    /\ reg[1] = 0
    /\ reg[R_COND] = FL_ZRO
    /\ steps = 2

\* ----------------------------------------------------------------------- C9
\* C9: ADD writes (a + b) mod 65536 in the register form and
\* (a + the signed value of imm5) mod 65536 in the immediate form, sets ZERO
\* when the result is 0, and does not end the run.
C9_AddWraps ==
    [][(Stepped /\ FieldOp(instr') = 1) =>
          LET ins == instr'
              a == reg[FieldSr1(ins)]
              b == IF (ins \div 32) % 2 = 1 THEN FieldSigned(ins, 5) ELSE reg[ins % 8]
          IN /\ reg'[FieldDr(ins)] = (a + b) % 65536
             /\ ((a + b) % 65536 = 0 => reg'[R_COND] = FL_ZRO)
             /\ pc' = "loop"]_vars

\* The register form has just added 0xFFFF and 0x0001: the result is 0 and the
\* flag is ZERO.
C9_Witness ==
    /\ instr = ADDr(3, 1, 2)
    /\ reg[1] = 65535
    /\ reg[2] = 1
    /\ reg[3] = 0
    /\ reg[R_COND] = FL_ZRO

\* ---------------------------------------------------------------------- C10
\* The address an LDI at the current program counter takes its pointer from.
LdiPointer(ins) == (reg[R_PC] + 1 + FieldSigned(ins, 9)) % 65536

\* C10 as stated: with memory[A] = B and memory[B] = V before an LDI that
\* resolves to A, the destination register holds V afterwards and the flags
\* are those of V, for all A and B.
C10_LdiLoadsThroughPointer ==
    [][(Stepped /\ FieldOp(instr') = 10) =>
          LET A == LdiPointer(instr')
              B == MemAt(memory, A)
              V == MemAt(memory, B)
          IN /\ reg'[FieldDr(instr')] = V
             /\ reg'[R_COND] = FlagFor(V)]_vars

\* C10 amended: the same for all A and B other than the keyboard status
\* register 0xFE00, whose read replaces the stored word by the result of a poll.
C10_LdiLoadsThroughPlainPointer ==
    [][(Stepped /\ FieldOp(instr') = 10) =>
          LET A == LdiPointer(instr')
              B == MemAt(memory, A)
              V == MemAt(memory, B)
          IN (A # 65024 /\ B # 65024) =>
                /\ reg'[FieldDr(instr')] = V
                /\ reg'[R_COND] = FlagFor(V)]_vars

\* An LDI at 0x3001 has loaded 0x8001 through the pointer at 0x3005.
C10_Witness ==
    /\ instr = LDIo(1, 3)
    /\ reg[R_PC] = PC_START + 2
    /\ MemAt(memory, PC_START + 5) = PC_START + 6
    /\ MemAt(memory, PC_START + 6) = 32769
    /\ reg[1] = 32769
    /\ reg[R_COND] = FL_NEG

\* C11: for every width w in {5, 6, 9, 11} and every w-bit value x,
\* sign_extend(x, w) is x when bit w-1 of x is 0 and x + (65536 - 2^w) when it
\* is 1, and the low w bits of the result are those of x.
C11_SignExtend ==
    sx.done =>
        LET w == sx.bit_count
            top == (sx.x \div (2 ^ (w - 1))) % 2
        IN /\ sx.result = (IF top = 0 THEN sx.x ELSE sx.x + (65536 - 2 ^ w))
           /\ sx.result % (2 ^ w) = sx.x % (2 ^ w)

\* The 5-bit pattern 11111 has been extended to 0xFFFF.
C11_Witness ==
    /\ sx.done
    /\ sx.bit_count = 5
    /\ sx.x = 31
    /\ sx.result = 65535

\* The 5-bit pattern 01111 has been extended to 0x000F.
C11_WitnessPositive ==
    /\ sx.done
    /\ sx.bit_count = 5
    /\ sx.x = 15
    /\ sx.result = 15

\* The low byte of each word from address a up to, and without, the first zero
\* word, or up to the last word of memory when no zero word follows a.
RECURSIVE StringAt(_, _)
StringAt(mem, a) ==
    IF a > 65535 \/ MemAt(mem, a) = 0 THEN <<>>
    ELSE <<MemAt(mem, a) % 256>> \o StringAt(mem, a + 1)

\* C12: a TRAP PUTS appends to the console output the low byte of each word
\* from memory[R0] up to the first zero word, in ascending address order, and
\* nothing else; it changes no memory word and no register other than R7 and
\* the program counter, and execution continues with the next instruction.
C12_PutsWritesString ==
    [][(Stepped /\ FieldOp(instr') = 15 /\ FieldVect(instr') = 34) =>
          /\ out' = out \o StringAt(memory, reg[R_R0])
          /\ memory' = memory
          /\ \A r \in (0..6) \cup {R_COND} : reg'[r] = reg[r]
          /\ reg'[R_PC] = (reg[R_PC] + 1) % 65536
          /\ pc' = pc
          /\ running' = running]_vars

\* The same for a string that has its zero word inside memory.
C12_PutsWritesTerminatedString ==
    [][(Stepped /\ FieldOp(instr') = 15 /\ FieldVect(instr') = 34 /\ ~past') =>
          /\ out' = out \o StringAt(memory, reg[R_R0])
          /\ memory' = memory
          /\ \A r \in (0..6) \cup {R_COND} : reg'[r] = reg[r]
          /\ reg'[R_PC] = (reg[R_PC] + 1) % 65536
          /\ pc' = pc
          /\ running' = running]_vars

\* The value getchar returned last.
LastChar(cons) == cons[Len(cons)]

\* C13: after a TRAP GETC or TRAP IN that read a character of byte value b in
\* 0..255, R0 is b with its high 8 bits 0, the flags are those of R0, and the
\* NEGATIVE flag is not set.
C13_CharZeroExtended ==
    [][(Stepped /\ FieldOp(instr') = 15 /\ FieldVect(instr') \in {32, 35}
          /\ LastChar(consumed') \in 0..255) =>
          /\ reg'[R_R0] = LastChar(consumed')
          /\ reg'[R_R0] \div 256 = 0
          /\ reg'[R_COND] = FlagFor(reg'[R_R0])
          /\ reg'[R_COND] # FL_NEG]_vars

\* The same for TRAP GETC alone.
C13_GetcZeroExtended ==
    [][(Stepped /\ FieldOp(instr') = 15 /\ FieldVect(instr') = 32
          /\ LastChar(consumed') \in 0..255) =>
          /\ reg'[R_R0] = LastChar(consumed')
          /\ reg'[R_R0] \div 256 = 0
          /\ reg'[R_COND] = FlagFor(reg'[R_R0])
          /\ reg'[R_COND] # FL_NEG]_vars

\* The program counter after the fetch.
NextPc == (reg[R_PC] + 1) % 65536

\* The address an instruction forms from the incremented program counter and
\* its signed field of w bits.
PcPlus(ins, w) == (NextPc + FieldSigned(ins, w)) % 65536

\* C14: every step fetches the word at the address in the program counter and
\* increments the program counter modulo 65536 before the instruction is
\* executed: BR, JSR, LD, LDI, LEA, ST and STI form their address from the
\* incremented program counter, JSR, JSRR and TRAP save it in R7, and every
\* instruction that sets no program counter leaves the incremented one.
C14_FetchIncrements ==
    [][Stepped =>
          LET op == FieldOp(instr')
              A9 == PcPlus(instr', 9)
          IN /\ reg[R_PC] # 65024 => instr' = MemAt(memory, reg[R_PC])
             /\ reg[R_PC] = 65024 => instr' \in {0, 32768}
             /\ op \in {1, 5, 9, 2, 10, 6, 14, 3, 11, 7, 8, 13, 15} => reg'[R_PC] = NextPc
             /\ op = 0 => reg'[R_PC] \in {NextPc, A9}
             /\ op = 4 => reg'[7] = NextPc
             /\ (op = 4 /\ (instr' \div 2048) % 2 = 1) => reg'[R_PC] = PcPlus(instr', 11)
             /\ op = 15 => reg'[7] = NextPc
             /\ op = 14 => reg'[FieldDr(instr')] = A9
             /\ (op = 2 /\ A9 # 65024) => reg'[FieldDr(instr')] = MemAt(memory, A9)
             /\ (op = 10 /\ A9 # 65024 /\ MemAt(memory, A9) # 65024) =>
                   reg'[FieldDr(instr')] = MemAt(memory, MemAt(memory, A9))
             /\ op = 3 => MemAt(memory', A9) = reg[FieldDr(instr')]
             /\ (op = 11 /\ A9 # 65024) =>
                   MemAt(memory', MemAt(memory, A9)) = reg[FieldDr(instr')]]_vars

\* The LEA in the last word of memory has run: the program counter wrapped from
\* 0xFFFF to 0 and R2 is the wrapped program counter plus 1.
C14_Witness ==
    /\ instr = LEAo(2, 1)
    /\ MemAt(memory, 65535) = LEAo(2, 1)
    /\ reg[R_PC] = 0
    /\ reg[2] = 1

\* The condition mask of a BR and the flag share a bit.
MaskMeets(ins, cond) ==
    \E b \in {1, 2, 4} : ((ins \div 512) \div b) % 2 = 1 /\ (cond \div b) % 2 = 1

\* What a BR does to the registers: the offset is added to the incremented
\* program counter exactly when the mask meets the flag, a mask of 000 never
\* branches, and no general register and not the condition code changes.
BrRegisters ==
    /\ reg'[R_PC] = (IF MaskMeets(instr', reg[R_COND]) THEN PcPlus(instr', 9) ELSE NextPc)
    /\ (instr' \div 512) % 8 = 0 => reg'[R_PC] = NextPc
    /\ \A r \in (0..7) \cup {R_COND} : reg'[r] = reg[r]

\* C15: a BR adds its sign-extended 9-bit offset to the incremented program
\* counter, modulo 65536, if and only if its mask shares a bit with the
\* condition flag, and otherwise leaves the incremented program counter; it
\* changes no general register, no memory word and not the condition code.
C15_BrChangesOnlyPc ==
    [][(Stepped /\ FieldOp(instr') = 0) =>
          /\ BrRegisters
          /\ memory' = memory]_vars

\* C15 amended: the same, where the one memory word that can change is the
\* keyboard status register 0xFE00, by the poll of the fetch when the BR is
\* fetched from that address: the poll found no key and stored 0.
C15_BrChangesOnlyPcAndStatus ==
    [][(Stepped /\ FieldOp(instr') = 0) =>
          /\ BrRegisters
          /\ reg[R_PC] # 65024 => memory' = memory
          /\ \A a \in (DOMAIN memory \cup DOMAIN memory') \ {65024} :
                MemAt(memory', a) = MemAt(memory, a)
          /\ reg[R_PC] = 65024 => MemAt(memory', 65024) = 0]_vars

\* The BR at 0x3000, mask z with the flag ZERO, has branched over one word.
C15_Witness ==
    /\ steps = 1
    /\ instr = BRc(2, 1)
    /\ reg[R_COND] = FL_ZRO
    /\ reg[R_PC] = PC_START + 2

\* A BR at 0x3002, mask np with the flag ZERO, has not branched.
C15_WitnessNotTaken ==
    /\ instr = BRc(5, 5)
    /\ reg[R_COND] = FL_ZRO
    /\ reg[R_PC] = PC_START + 3

\* A BR of mask 000 was fetched from the status register, which held 0x3000.
C15_WitnessStatus ==
    /\ instr = 0
    /\ reg[R_PC] = 65025
    /\ MemAt(memory, 65024) = 0
    /\ ImgDevice \in {argv[k] : k \in DOMAIN argv}

\* C16: after every JSR, JSRR and TRAP, R7 is the incremented program counter,
\* the address of the instruction that follows; after a JSR in long form
\* (bit 11 set) the program counter is the incremented program counter plus the
\* sign-extended 11-bit offset, modulo 65536.
C16_LinkInR7 ==
    [][(Stepped /\ FieldOp(instr') \in {4, 15}) =>
          /\ reg'[7] = NextPc
          /\ (FieldOp(instr') = 4 /\ (instr' \div 2048) % 2 = 1) =>
                reg'[R_PC] = PcPlus(instr', 11)]_vars

\* The JSR at 0x3003 with offset 1 has linked 0x3004 and jumped to 0x3005.
C16_Witness ==
    /\ instr = JSRo(1)
    /\ reg[7] = PC_START + 4
    /\ reg[R_PC] = PC_START + 5

\* The JSRR at 0x3005 has linked 0x3006.
C16_WitnessJsrr ==
    /\ instr = JSRRr(7)
    /\ reg[7] = PC_START + 6

\* A TRAP at 0x3001 has linked 0x3002.
C16_WitnessTrap ==
    /\ FieldOp(instr) = 15
    /\ steps = 2
    /\ reg[7] = PC_START + 2

\* The addresses that hold a word in the memory before or after the step.
Touched == DOMAIN memory \cup DOMAIN memory'

\* The step stored v at the address target and changed no other memory word,
\* apart from those at the addresses in free.
StoredAt(target, v, free) ==
    /\ MemAt(memory', target) = v
    /\ \A a \in Touched \ ({target} \cup free) : MemAt(memory', a) = MemAt(memory, a)

\* C17: ST, STI and STR store the source register at PC + sext9, at the address
\* held at PC + sext9 and at base + sext6, all modulo 65536, and change nothing
\* else: no general register, not the condition code, and no memory word other
\* than the target, apart from the device words 0xFE00 and 0xFE02 when the
\* address read of STI is a read of the status register.
C17_StoresChangeOnlyTarget ==
    [][(Stepped /\ FieldOp(instr') \in {3, 11, 7}) =>
          LET op == FieldOp(instr')
              v == reg[FieldDr(instr')]
              A9 == PcPlus(instr', 9)
          IN /\ \A r \in (0..7) \cup {R_COND} : reg'[r] = reg[r]
             /\ reg'[R_PC] = NextPc
             /\ op = 3 => StoredAt(A9, v, {})
             /\ op = 7 =>
                   StoredAt((reg[FieldSr1(instr')] + FieldSigned(instr', 6)) % 65536, v, {})
             /\ (op = 11 /\ A9 # 65024) => StoredAt(MemAt(memory, A9), v, {})
             /\ (op = 11 /\ A9 = 65024) =>
                   \E target \in {0, 32768} :
                      /\ MemAt(memory', 65024) = target
                      /\ StoredAt(target, v, {65024, 65026})]_vars

\* ST, STI and STR have stored 0xFFFF at 0x3005, at 0x4000 and at 0xFFFF.
C17_Witness ==
    /\ instr = STRo(1, 2, -1)
    /\ reg[1] = 65535
    /\ MemAt(memory, PC_START + 5) = 65535
    /\ MemAt(memory, 16384) = 65535
    /\ MemAt(memory, 65535) = 65535

\* An STI at 0xFDFE read its address from the status register while a key was
\* down, and stored R1 at 0x8000.
C17_WitnessDevice ==
    /\ instr = STIo(1, 1)
    /\ MemAt(memory, 65024) = 32768
    /\ MemAt(memory, 65026) = 65
    /\ MemAt(memory, 32768) = 65022

\* The memory mem with v at address a, as a function that may hold zero words.
WithWord(mem, a, v) == [x \in DOMAIN mem \cup {a} |-> IF x = a THEN v ELSE mem[x]]

\* Two memories hold the same word at every address.
SameWords(m1, m2) == \A a \in DOMAIN m1 \cup DOMAIN m2 : MemAt(m1, a) = MemAt(m2, a)

\* What a read of address a may do, from memory mem with the input cons consumed
\* so far. At 0xFE00 it polls: with no input the stored status becomes 0; with
\* input one character c (or the end of input, -1) is consumed and stored at
\* 0xFE02 and the stored status is 0x8000. The word returned is the status as
\* stored. At any other address nothing is consumed, no word changes and the
\* stored word is returned.
ReadResults(mem, cons, a) ==
    IF a = 65024
    THEN {[mem |-> WithWord(mem, 65024, 0), cons |-> cons, val |-> 0]}
         \cup {[mem |-> WithWord(WithWord(mem, 65024, 32768), 65026, c % 65536),
                cons |-> Append(cons, c), val |-> 32768] : c \in (-1)..255}
    ELSE {[mem |-> mem, cons |-> cons, val |-> MemAt(mem, a)]}

\* The step ends with the memory and the consumed input of the read result r.
EndsWith(r) == consumed' = r.cons /\ SameWords(memory', r.mem)

\* C18: every read through the read path, the instruction fetch included, of
\* address 0xFE00 polls afresh: with input available the stored status gets
\* bit 15 and one character is consumed and stored at 0xFE02, otherwise the
\* stored status becomes 0. A read of any other address, 0xFE02 included,
\* consumes no input, changes no memory word and returns the stored word. The
\* reads of a step are the fetch, then the operand read of LD and LDR, the two
\* reads of LDI and the address read of STI.
C18_ReadsPollStatus ==
    [][Stepped =>
          \E r1 \in ReadResults(memory, consumed, reg[R_PC]) :
             /\ instr' = r1.val
             /\ LET op == FieldOp(r1.val)
                    dr == FieldDr(r1.val)
                    A9 == PcPlus(r1.val, 9)
                    B6 == (reg[FieldSr1(r1.val)] + FieldSigned(r1.val, 6)) % 65536
                IN CASE op = 2 ->
                          \E r2 \in ReadResults(r1.mem, r1.cons, A9) :
                             EndsWith(r2) /\ reg'[dr] = r2.val
                     [] op = 6 ->
                          \E r2 \in ReadResults(r1.mem, r1.cons, B6) :
                             EndsWith(r2) /\ reg'[dr] = r2.val
                     [] op = 10 ->
                          \E r2 \in ReadResults(r1.mem, r1.cons, A9) :
                             \E r3 \in ReadResults(r2.mem, r2.cons, r2.val) :
                                EndsWith(r3) /\ reg'[dr] = r3.val
                     [] op = 11 ->
                          \E r2 \in ReadResults(r1.mem, r1.cons, A9) :
                             /\ consumed' = r2.cons
                             /\ SameWords(memory', WithWord(r2.mem, r2.val, reg[dr]))
                     [] op = 3 ->
                          /\ consumed' = r1.cons
                          /\ SameWords(memory', WithWord(r1.mem, A9, reg[dr]))
                     [] op = 7 ->
                          /\ consumed' = r1.cons
                          /\ SameWords(memory', WithWord(r1.mem, B6, reg[dr]))
                     [] op = 15 /\ FieldVect(r1.val) \in {32, 35} ->
                          /\ SameWords(memory', r1.mem)
                          /\ \E c \in (-1)..255 : consumed' = Append(r1.cons, c)
                     [] OTHER -> EndsWith(r1)]_vars

\* An instruction was fetched at 0xFE00 while a key was down: the character 65
\* was consumed and stored at 0xFE02 and the status, 0x8000, was the word
\* fetched.
C18_Witness ==
    /\ reg[R_PC] = 65025
    /\ instr = 32768
    /\ consumed = <<65>>
    /\ MemAt(memory, 65024) = 32768
    /\ MemAt(memory, 65026) = 65

\* A poll that found no key replaced the status 0x3000 by 0, and the LDI that
\* read it loaded the word at address 0.
C18_WitnessNoKey ==
    /\ instr = LDIo(0, 1)
    /\ reg[R_PC] = 65023
    /\ consumed = <<>>
    /\ MemAt(memory, 65024) = 0
    /\ ImgDevice \in {argv[k] : k \in DOMAIN argv}

\* After a poll consumed the character 200, the read of 0xFE02 by the next LDI
\* returned it and consumed nothing.
C18_WitnessData ==
    /\ instr = LDIo(2, 2)
    /\ consumed = <<200>>
    /\ MemAt(memory, 65026) = 200
    /\ reg[2] = 200

\* C19: after a JSRR (JSR with bit 11 clear), whatever the base register, R7
\* included, the program counter is the value the base register held before
\* the instruction.
C19_JsrrJumpsToBase ==
    [][(Stepped /\ FieldOp(instr') = 4 /\ (instr' \div 2048) % 2 = 0) =>
          reg'[R_PC] = reg[FieldSr1(instr')]]_vars

\* C20: no string scan of TRAP PUTS or TRAP PUTSP reads a word past the last
\* word of memory, 0xFFFF, whatever the memory holds and whatever R0 is.
C20_ScanStaysInMemory == ~past

====
